---------------------------- MODULE Spec2Model ----------------------------
(***************************************************************************)
(* Maya rigging scripts (Rigging/AuttoRigger.py, Rigging/broken_FK.py,     *)
(* Rigging/MirrorControls.py): the rig spec builder, the guide wizard, the *)
(* constraint-chaining script and the control-mirroring script, as state   *)
(* machines over the part of the Maya scene they touch.                    *)
(*                                                                         *)
(* Node names are strings and every name conversion is computed on the     *)
(* characters, as the Python code computes it.                             *)
(***************************************************************************)
EXTENDS Integers, Sequences, FiniteSets, TLC

VARIABLES
    \* ---- AutoRigWizard: widgets and fields
    spine_spin, neck_spin, finger_spin, finger_seg_spin,   \* QSpinBox values
    back_enabled, next_enabled,                            \* QPushButton states
    spine_count, neck_count, finger_count, finger_segments,
    spec, steps, step_index,
    \* ---- the Maya scene, as far as the wizard reads and writes it
    groups,      \* the existing ones of RigGuides_GRP, RigJoints_GRP
    guides,      \* locator name -> [t, r]   world translation and rotation
    joints,      \* joint name   -> [parent, pos]
    selection,   \* the active selection list
    warnings,    \* cmds.warning lines of the handler that ran last
    \* ---- bookkeeping of the model
    lastOp,      \* the handler, function or script step that ran last
    events,      \* number of user events so far
    call,        \* arguments of the last direct function call
    ret,         \* its return value
    \* ---- broken_FK.py
    sels, index, constraints, attrs, connections,
    \* ---- MirrorControls.py
    dag,         \* full path -> [t, sx, kind]  local translate, X scale
    picked,      \* the selection when the script starts
    pc,          \* where the script stands
    ctrls, mirror_grp, unparented_ctrls,
    ctrl_i,      \* position of the running for loop
    mc_warnings, \* cmds.warning lines of the script
    error        \* the error a command raised, "" if none

wizardVars == << spine_spin, neck_spin, finger_spin, finger_seg_spin,
                 back_enabled, next_enabled,
                 spine_count, neck_count, finger_count, finger_segments,
                 spec, steps, step_index >>
sceneVars  == << groups, guides, joints, selection, warnings >>
callVars   == << call, ret >>
chainVars  == << sels, index, constraints, attrs, connections >>
mcVars     == << dag, picked, pc, ctrls, mirror_grp, unparented_ctrls,
                 ctrl_i, mc_warnings, error >>
vars == << wizardVars, sceneVars, lastOp, events, callVars, chainVars, mcVars >>

-----------------------------------------------------------------------------
(* Python values and string methods *)

\* Python's None in a spec entry's 'parent'; no node carries this name.
None == "None"

\* s.startswith(p)
StartsWith(s, p) == Len(s) >= Len(p) /\ SubSeq(s, 1, Len(p)) = p

\* s[n:]
DropPrefix(s, n) == SubSeq(s, n + 1, Len(s))

\* s.find(old): the first index (from 1) at which old occurs in s, 0 if none
Find(s, old) ==
    LET at == {i \in 1..(Len(s) - Len(old) + 1) : SubSeq(s, i, i + Len(old) - 1) = old}
    IN  IF at = {} THEN 0 ELSE CHOOSE i \in at : \A k \in at : i <= k

\* s.replace(old, new): every non-overlapping occurrence, left to right
RECURSIVE Replace(_, _, _)
Replace(s, old, new) ==
    LET i == Find(s, old)
    IN  IF i = 0 \/ Len(old) = 0 THEN s
        ELSE SubSeq(s, 1, i - 1) \o new
             \o Replace(SubSeq(s, i + Len(old), Len(s)), old, new)

\* f"{i}"
Str(i) == ToString(i)

\* f"{i:02d}": decimal, zero-padded to width 2
Fmt02d(i) == IF i < 10 THEN "0" \o ToString(i) ELSE ToString(i)

-----------------------------------------------------------------------------
(* Helpers of AuttoRigger.py *)

swap_LR_sameprefix(name) ==
    IF StartsWith(name, "L_") THEN "R_" \o DropPrefix(name, 2)
    ELSE IF StartsWith(name, "R_") THEN "R_" \o DropPrefix(name, 2)
    ELSE name

swap_LR(name) ==
    IF StartsWith(name, "L_") THEN "R_" \o DropPrefix(name, 2)
    ELSE IF StartsWith(name, "R_") THEN "L_" \o DropPrefix(name, 2)
    ELSE name

guide_name_for_joint ==
    [joint_name \in STRING |->
        Replace(Replace(joint_name, "_Jnt", "_Guide"), "_FK_", "_FK_")]

\* cmds.xform(src, q, ws, t) / (q, ws, ro), then cmds.xform(dst, ws, t / ro):
\* the locators after the call, given the locators before it
mirror_x_world_negate_all(g, src, dst) ==
    LET t == g[src].t
        r == g[src].r
        t_m == << -t[1], -t[2], -t[3] >>
    IN  [g EXCEPT ![dst] = [t |-> t_m, r |-> r]]

mirror_x_world(g, src, dst) ==
    LET t == g[src].t
        r == g[src].r
        t_m == << -t[1], t[2], t[3] >>
        g1 == [g EXCEPT ![dst].t = t_m]
    IN  [g1 EXCEPT ![dst].r = r]

-----------------------------------------------------------------------------
(* Rig Spec (DATA) *)

Entry(k, n, p, sd, rq) ==
    [key |-> k, name |-> n, parent |-> p, side |-> sd, required |-> rq]

\* for i in range(1, spine_count+1): the loop state is (spec, prev)
RECURSIVE SpineLoop(_, _, _, _)
SpineLoop(sp, prev, i, spine_n) ==
    IF i > spine_n THEN [spec |-> sp, prev |-> prev]
    ELSE LET j == "Spine_" \o Fmt02d(i) \o "_FK_Jnt"
         IN  SpineLoop(Append(sp, Entry("SPN" \o Str(i), j, prev, "C", TRUE)),
                       j, i + 1, spine_n)

\* for i in range(1, neck_count+1)
RECURSIVE NeckLoop(_, _, _, _)
NeckLoop(sp, prev, i, neck_n) ==
    IF i > neck_n THEN [spec |-> sp, prev |-> prev]
    ELSE LET j == "Neck_" \o Fmt02d(i) \o "_FK_Jnt"
         IN  NeckLoop(Append(sp, Entry("NCK" \o Str(i), j, prev, "C", TRUE)),
                      j, i + 1, neck_n)

LeftArm(chest) == <<
    Entry("L_CLAV", "L_Clav_FK_Jnt",   chest,             "L", TRUE),
    Entry("L_ARM1", "L_Arm_01_FK_Jnt", "L_Clav_FK_Jnt",   "L", TRUE),
    Entry("L_ARM2", "L_Arm_02_FK_Jnt", "L_Arm_01_FK_Jnt", "L", TRUE),
    Entry("L_ARM3", "L_Arm_03_FK_Jnt", "L_Arm_02_FK_Jnt", "L", TRUE),
    Entry("L_HAND", "L_Hand_FK_Jnt",   "L_Arm_03_FK_Jnt", "L", TRUE) >>

LeftLeg == <<
    Entry("L_LEGCLAV", "L_Leg_Clav_FK_Jnt", "Pelvis_FK_Jnt",     "L", TRUE),
    Entry("L_LEG1",    "L_Leg_01_FK_Jnt",   "L_Leg_Clav_FK_Jnt", "L", TRUE),
    Entry("L_LEG2",    "L_Leg_02_FK_Jnt",   "L_Leg_01_FK_Jnt",   "L", TRUE),
    Entry("L_LEG3",    "L_Leg_03_FK_Jnt",   "L_Leg_02_FK_Jnt",   "L", TRUE),
    Entry("L_FOOT1",   "L_Foot_01_FK_Jnt",  "L_Leg_03_FK_Jnt",   "L", TRUE),
    Entry("L_FOOT2",   "L_Foot_02_FK_Jnt",  "L_Foot_01_FK_Jnt",  "L", TRUE),
    Entry("L_FOOT3",   "L_Foot_03_FK_Jnt",  "L_Foot_02_FK_Jnt",  "L", FALSE) >>

build_base_spec_chest_on_pelvis(spine_n, neck_n) ==
    LET s0 == << Entry("COG",  "COG_FK_Jnt",    None,         "C", TRUE),
                 Entry("PELV", "Pelvis_FK_Jnt", "COG_FK_Jnt", "C", TRUE) >>
        sl == SpineLoop(s0, "Pelvis_FK_Jnt", 1, spine_n)
        s1 == Append(sl.spec, Entry("CHEST", "Chest_FK_Jnt", "Pelvis_FK_Jnt", "C", TRUE))
        chest == "Chest_FK_Jnt"
        nl == NeckLoop(s1, chest, 1, neck_n)
        s2 == Append(nl.spec, Entry("HEAD", "Head_FK_Jnt", nl.prev, "C", TRUE))
    IN  s2 \o LeftArm(chest) \o LeftLeg

build_base_spec(spine_n, neck_n) ==
    LET s0 == << Entry("COG",  "COG_FK_Jnt",    None,         "C", TRUE),
                 Entry("PELV", "Pelvis_FK_Jnt", "COG_FK_Jnt", "C", TRUE) >>
        sl == SpineLoop(s0, "Pelvis_FK_Jnt", 1, spine_n)
        s1 == Append(sl.spec, Entry("CHEST", "Chest_FK_Jnt", sl.prev, "C", TRUE))
        chest == "Chest_FK_Jnt"
        nl == NeckLoop(s1, chest, 1, neck_n)
        s2 == Append(nl.spec, Entry("HEAD", "Head_FK_Jnt", nl.prev, "C", TRUE))
    IN  s2 \o LeftArm(chest) \o LeftLeg

\* (prev assigned before the entry is appended)
RECURSIVE SegmentLoop_prev_first(_, _, _, _, _)
SegmentLoop_prev_first(sp, prev, f, s, segments) ==
    IF s > segments THEN sp
    ELSE LET j == "L_Finger_" \o Fmt02d(f) \o "_" \o Fmt02d(s) \o "_FK_Jnt"
         IN  SegmentLoop_prev_first(
                 Append(sp, Entry("L_F" \o Str(f) \o "_" \o Str(s), j, j, "L", TRUE)),
                 j, f, s + 1, segments)

\* for s in range(1, segments+1): the loop state is (spec, prev)
RECURSIVE SegmentLoop(_, _, _, _, _)
SegmentLoop(sp, prev, f, s, segments) ==
    IF s > segments THEN sp
    ELSE LET j == "L_Finger_" \o Fmt02d(f) \o "_" \o Fmt02d(s) \o "_FK_Jnt"
         IN  SegmentLoop(
                 Append(sp, Entry("L_F" \o Str(f) \o "_" \o Str(s), j, prev, "L", TRUE)),
                 j, f, s + 1, segments)

\* (prev set to the hand once, before the finger loop, and carried across fingers)
RECURSIVE SegmentLoop_ret_prev(_, _, _, _, _)
SegmentLoop_ret_prev(sp, prev, f, s, segments) ==
    IF s > segments THEN [spec |-> sp, prev |-> prev]
    ELSE LET j == "L_Finger_" \o Fmt02d(f) \o "_" \o Fmt02d(s) \o "_FK_Jnt"
         IN  SegmentLoop_ret_prev(
                 Append(sp, Entry("L_F" \o Str(f) \o "_" \o Str(s), j, prev, "L", TRUE)),
                 j, f, s + 1, segments)

RECURSIVE FingerLoop_prev_carried(_, _, _, _, _)
FingerLoop_prev_carried(sp, prev, f, finger_n, segments) ==
    IF f > finger_n THEN sp
    ELSE LET r == SegmentLoop_ret_prev(sp, prev, f, 1, segments)
         IN  FingerLoop_prev_carried(r.spec, r.prev, f + 1, finger_n, segments)

append_fingers_prev_carried(sp, finger_n, segments) ==
    FingerLoop_prev_carried(sp, "L_Hand_FK_Jnt", 1, finger_n, segments)

\* for f in range(1, finger_count+1)
RECURSIVE FingerLoop(_, _, _, _)
FingerLoop(sp, f, finger_n, segments) ==
    IF f > finger_n THEN sp
    ELSE FingerLoop(SegmentLoop(sp, "L_Hand_FK_Jnt", f, 1, segments),
                    f + 1, finger_n, segments)

append_fingers(sp, finger_n, segments) == FingerLoop(sp, 1, finger_n, segments)


\* AutoRigWizard.rebuild_spec, lines 256-262: the spec and the step list
\* computed from the four counts
rebuild_spec_fingers_twice(spine_n, neck_n, finger_n, segments) ==
    LET base == append_fingers(build_base_spec(spine_n, neck_n), finger_n, segments)
        sp   == IF finger_n > 0 THEN append_fingers(base, finger_n, segments)
                ELSE base
    IN  [spec  |-> sp,
         steps |-> SelectSeq(sp, LAMBDA s : s.side \in {"C", "L"})]

rebuild_spec_value(spine_n, neck_n, finger_n, segments) ==
    LET base == build_base_spec(spine_n, neck_n)
        sp   == IF finger_n > 0 THEN append_fingers(base, finger_n, segments)
                ELSE base
    IN  [spec  |-> sp,
         steps |-> SelectSeq(sp, LAMBDA s : s.side \in {"C", "L"})]

-----------------------------------------------------------------------------
(* Ranges of the settings spin boxes (QSpinBox.setRange) *)

SpineRange  == 1..8
NeckRange   == 1..6
FingerRange == 0..10
SegRange    == 1..4

\* self.guide_name_for_joint(n)
GuideName(n) == guide_name_for_joint[n]

-----------------------------------------------------------------------------
(* The state after AutoRigWizard.__init__ in an empty scene *)

guides_grp == "RigGuides_GRP"
joints_grp == "RigJoints_GRP"

InitWizard ==
    /\ spine_spin = 3 /\ neck_spin = 3 /\ finger_spin = 5 /\ finger_seg_spin = 3
    /\ spine_count = 3 /\ neck_count = 3 /\ finger_count = 5 /\ finger_segments = 3
    /\ spec  = rebuild_spec_value(3, 3, 5, 3).spec
    /\ steps = rebuild_spec_value(3, 3, 5, 3).steps
    /\ step_index = 0
    /\ back_enabled = FALSE
    /\ next_enabled = TRUE

InitScene ==
    /\ groups = {}
    /\ guides = << >>
    /\ joints = << >>
    /\ selection = << >>
    /\ warnings = << >>

InitCalls == call = [fn |-> "none"] /\ ret = << >>

InitChain ==
    /\ sels = << >> /\ index = 0
    /\ constraints = {} /\ attrs = {} /\ connections = {}

InitControls ==
    /\ dag = << >> /\ picked = << >> /\ pc = "idle"
    /\ ctrls = << >> /\ mirror_grp = "" /\ unparented_ctrls = << >>
    /\ ctrl_i = 0 /\ mc_warnings = << >> /\ error = ""

-----------------------------------------------------------------------------
(* Direct calls of the pure functions, over all their arguments *)

MaxNameLen == 4
Alphabet == {"L", "R", "_", "a"}

RECURSIVE NamesOfLen(_)
NamesOfLen(n) ==
    IF n = 0 THEN {""}
    ELSE {c \o w : c \in Alphabet, w \in NamesOfLen(n - 1)}

Names == UNION {NamesOfLen(n) : n \in 0..MaxNameLen}

\* The calls to make: a function and its arguments
CallInputs ==
    {[fn |-> "build_base_spec", spine_count |-> sp, neck_count |-> nk] :
        sp \in SpineRange, nk \in NeckRange}
    \cup
    {[fn |-> f, spine_count |-> sp, neck_count |-> nk,
      finger_count |-> fc, segments |-> fs] :
        f \in {"append_fingers", "rebuild_spec"},
        sp \in SpineRange, nk \in NeckRange, fc \in FingerRange, fs \in SegRange}
    \cup
    {[fn |-> "swap_LR", name |-> n] : n \in Names}

Pending(f) == lastOp = "pending" /\ call.fn = f

\* the frame of a call: only its return value changes
Returns(f) ==
    /\ lastOp' = f
    /\ UNCHANGED << wizardVars, sceneVars, events, call, chainVars, mcVars >>

CallBuildBaseSpec ==
    /\ Pending("build_base_spec")
    /\ ret' = build_base_spec(call.spine_count, call.neck_count)
    /\ Returns("build_base_spec")

\* append_fingers is applied to a spec that build_base_spec returned
CallSpecArg == build_base_spec(call.spine_count, call.neck_count)

CallAppendFingers ==
    /\ Pending("append_fingers")
    /\ ret' = append_fingers(CallSpecArg, call.finger_count, call.segments)
    /\ Returns("append_fingers")

CallRebuildSpec ==
    /\ Pending("rebuild_spec")
    /\ ret' = rebuild_spec_value(call.spine_count, call.neck_count,
                                 call.finger_count, call.segments)
    /\ Returns("rebuild_spec")

CallSwapLR ==
    /\ Pending("swap_LR")
    /\ ret' = swap_LR(call.name)
    /\ Returns("swap_LR")

NextCalls ==
    \/ CallBuildBaseSpec
    \/ CallAppendFingers
    \/ CallRebuildSpec
    \/ CallSwapLR

InitModel ==
    /\ InitWizard /\ InitScene /\ InitCalls /\ InitChain /\ InitControls
    /\ lastOp = "init" /\ events = 0

InitCallsSpec ==
    /\ InitWizard /\ InitScene /\ InitChain /\ InitControls
    /\ call \in CallInputs /\ ret = << >>
    /\ lastOp = "pending" /\ events = 0

SpecCalls == InitCallsSpec /\ [][NextCalls]_vars

-----------------------------------------------------------------------------
(* Properties of the rig spec and of the name swap (SpecCalls) *)

\* The expected two-digit numerals, written out
TwoDigit == << "01", "02", "03", "04", "05", "06", "07", "08", "09", "10" >>

SpineJoint(i) == "Spine_" \o TwoDigit[i] \o "_FK_Jnt"
NeckJoint(i)  == "Neck_" \o TwoDigit[i] \o "_FK_Jnt"
FingerJoint(f, s) == "L_Finger_" \o TwoDigit[f] \o "_" \o TwoDigit[s] \o "_FK_Jnt"

\* indices of the entries of sp that carry the name n
Named(sp, n) == {i \in 1..Len(sp) : sp[i].name = n}

\* C1: in the spec built by build_base_spec followed by append_fingers, for
\* all counts the spin boxes allow, every parent other than None is the name
\* of an entry at a strictly earlier index, and the only entry whose parent
\* is None is COG_FK_Jnt.
C1_ParentsEarlier ==
    lastOp = "append_fingers" =>
        \A i \in 1..Len(ret) :
            /\ ret[i].parent # None =>
                   \E j \in 1..(i - 1) : ret[j].name = ret[i].parent
            /\ ret[i].parent = None <=> ret[i].name = "COG_FK_Jnt"

C1_Witness ==
    /\ lastOp = "append_fingers"
    /\ call.spine_count = 8 /\ call.neck_count = 6
    /\ call.finger_count = 10 /\ call.segments = 4
    /\ Len(ret) = 70
    /\ ret[70].parent = ret[69].name

\* C2: after rebuild_spec, for all counts the spin boxes allow, no two
\* entries of the spec share a name and no two share a key.
C2_UniqueNamesAndKeys ==
    lastOp = "rebuild_spec" =>
        \A i, j \in 1..Len(ret.spec) :
            i # j => /\ ret.spec[i].name # ret.spec[j].name
                     /\ ret.spec[i].key  # ret.spec[j].key

C2_Witness ==
    /\ lastOp = "rebuild_spec"
    /\ call.finger_count = 10 /\ call.segments = 4
    /\ Len(ret.spec) > 40
    /\ \E i \in 1..Len(ret.spec) : ret.spec[i].key = "L_F10_1"
    /\ \E i \in 1..Len(ret.spec) : ret.spec[i].key = "L_F1_1"

\* C3: swap_LR turns an "L_" prefix into "R_" and an "R_" prefix into "L_",
\* keeping the rest of the name; applied twice to such a name it returns the
\* name; a name with neither prefix is returned unchanged.
C3_SwapInvolution ==
    lastOp = "swap_LR" =>
        LET n == call.name
            rest == SubSeq(n, 3, Len(n))
        IN  /\ StartsWith(n, "L_") => ret = "R_" \o rest /\ swap_LR(ret) = n
            /\ StartsWith(n, "R_") => ret = "L_" \o rest /\ swap_LR(ret) = n
            /\ ~StartsWith(n, "L_") /\ ~StartsWith(n, "R_") => ret = n

C3_Witness ==
    /\ lastOp = "swap_LR"
    /\ call.name = "R_La"
    /\ ret = "L_La"

\* C5: build_base_spec yields exactly one Chest_FK_Jnt, whose parent is the
\* last spine joint, and exactly one Head_FK_Jnt, whose parent is the last
\* neck joint; the spine joints are one chain from Pelvis_FK_Jnt and the neck
\* joints one chain from Chest_FK_Jnt.
C5_ChestAndHead ==
    lastOp = "build_base_spec" =>
        LET sn == call.spine_count
            nn == call.neck_count
        IN  /\ Cardinality(Named(ret, "Chest_FK_Jnt")) = 1
            /\ \A i \in Named(ret, "Chest_FK_Jnt") : ret[i].parent = SpineJoint(sn)
            /\ Cardinality(Named(ret, "Head_FK_Jnt")) = 1
            /\ \A i \in Named(ret, "Head_FK_Jnt") : ret[i].parent = NeckJoint(nn)
            /\ \A k \in 1..sn :
                   /\ Cardinality(Named(ret, SpineJoint(k))) = 1
                   /\ \A i \in Named(ret, SpineJoint(k)) :
                          ret[i].parent = IF k = 1 THEN "Pelvis_FK_Jnt"
                                          ELSE SpineJoint(k - 1)
            /\ \A k \in 1..nn :
                   /\ Cardinality(Named(ret, NeckJoint(k))) = 1
                   /\ \A i \in Named(ret, NeckJoint(k)) :
                          ret[i].parent = IF k = 1 THEN "Chest_FK_Jnt"
                                          ELSE NeckJoint(k - 1)
            /\ sn = 3 /\ nn = 3 =>
                   /\ \E i \in 1..Len(ret) : /\ ret[i].name = "Chest_FK_Jnt"
                                             /\ ret[i].parent = "Spine_03_FK_Jnt"
                   /\ \E i \in 1..Len(ret) : /\ ret[i].name = "Head_FK_Jnt"
                                             /\ ret[i].parent = "Neck_03_FK_Jnt"

C5_Witness ==
    /\ lastOp = "build_base_spec"
    /\ call.spine_count = 3 /\ call.neck_count = 3
    /\ ret[6].name = "Chest_FK_Jnt" /\ ret[6].parent = "Spine_03_FK_Jnt"
    /\ ret[10].name = "Head_FK_Jnt" /\ ret[10].parent = "Neck_03_FK_Jnt"

\* C6: append_fingers appends exactly finger_count * segments entries after
\* the existing ones, which stay as they were; the new entries are named
\* L_Finger_<ff>_<ss>_FK_Jnt in finger-major order, the first segment of a
\* finger has parent L_Hand_FK_Jnt and a later segment has the previous
\* segment of the same finger as parent.
C6_AppendFingers ==
    lastOp = "append_fingers" =>
        LET base == CallSpecArg
            fc == call.finger_count
            fs == call.segments
            n0 == Len(base)
        IN  /\ Len(ret) = n0 + fc * fs
            /\ SubSeq(ret, 1, n0) = base
            /\ \A f \in 1..fc, s \in 1..fs :
                   LET e == ret[n0 + (f - 1) * fs + s]
                   IN  /\ e.name = FingerJoint(f, s)
                       /\ e.parent = IF s = 1 THEN "L_Hand_FK_Jnt"
                                     ELSE FingerJoint(f, s - 1)
            /\ fc = 2 /\ fs = 2 =>
                   [i \in 1..4 |-> ret[n0 + i].name] =
                       << "L_Finger_01_01_FK_Jnt", "L_Finger_01_02_FK_Jnt",
                          "L_Finger_02_01_FK_Jnt", "L_Finger_02_02_FK_Jnt" >>

C6_Witness ==
    /\ lastOp = "append_fingers"
    /\ call.finger_count = 2 /\ call.segments = 2
    /\ Len(ret) = Len(CallSpecArg) + 4
    /\ ret[Len(ret)].name = "L_Finger_02_02_FK_Jnt"
    /\ ret[Len(ret)].parent = "L_Finger_02_01_FK_Jnt"
    /\ ret[Len(ret) - 1].parent = "L_Hand_FK_Jnt"

-----------------------------------------------------------------------------
(* mirror_x_world on locators of a scene (SpecMirror) *)

MirrorNodes == {"locator1", "locator2", "locator3"}

SampleT == { <<0, 0, 0>>, <<1, 2, 3>>, <<-4, 0, 5>> }
SampleR == { <<0, 0, 0>>, <<10, 20, 30>> }

InitMirrorSpec ==
    /\ InitWizard /\ InitCalls /\ InitChain /\ InitControls
    /\ groups = {} /\ joints = << >> /\ selection = << >> /\ warnings = << >>
    /\ guides \in [MirrorNodes -> [t : SampleT, r : SampleR]]
    /\ lastOp = "init" /\ events = 0

\* mirror_x_world(src, dst) on two different nodes.  The call record keeps the
\* source transform read by the call; chain says that src was the destination
\* of the call before and dst is a third node, and orig_t is then the
\* translation the first call read.
CallMirrorXWorld ==
    \E src \in MirrorNodes : \E dst \in MirrorNodes \ {src} :
        LET chain == /\ lastOp = "mirror_x_world"
                     /\ call.dst = src
                     /\ dst \notin {call.src, call.dst}
        IN  /\ guides' = mirror_x_world(guides, src, dst)
            /\ call' = [fn |-> "mirror_x_world", src |-> src, dst |-> dst,
                        src_t |-> guides[src].t, src_r |-> guides[src].r,
                        chain |-> chain,
                        orig_t |-> IF chain THEN call.src_t ELSE guides[src].t]
            /\ lastOp' = "mirror_x_world"
            /\ UNCHANGED << wizardVars, groups, joints, selection, warnings,
                            events, ret, chainVars, mcVars >>

NextMirror == CallMirrorXWorld

SpecMirror == InitMirrorSpec /\ [][NextMirror]_vars

\* C4: after mirror_x_world(src, dst), dst's world translation is (-x, y, z)
\* for src's translation (x, y, z), dst's world rotation is src's rotation,
\* and src's transform is what it was; after mirroring the result into a
\* third node, that node has the X of the first source, and Y and Z are the
\* same at every step.
C4_MirrorXWorld ==
    lastOp = "mirror_x_world" =>
        /\ guides[call.dst].t = << -call.src_t[1], call.src_t[2], call.src_t[3] >>
        /\ guides[call.dst].r = call.src_r
        /\ guides[call.src] = [t |-> call.src_t, r |-> call.src_r]
        /\ call.chain =>
               /\ guides[call.dst].t[1] = call.orig_t[1]
               /\ guides[call.dst].t[2] = call.orig_t[2]
               /\ guides[call.dst].t[3] = call.orig_t[3]
               /\ guides[call.src].t[2] = call.orig_t[2]
               /\ guides[call.src].t[3] = call.orig_t[3]

C4_Witness ==
    /\ lastOp = "mirror_x_world"
    /\ call.chain
    /\ call.orig_t = <<-4, 0, 5>>
    /\ call.src_t = <<4, 0, 5>>
    /\ call.src_r = <<10, 20, 30>>
    /\ guides[call.dst] = [t |-> <<-4, 0, 5>>, r |-> <<10, 20, 30>>]

-----------------------------------------------------------------------------
(* The Maya scene under the wizard's commands *)

\* parent of a node that sits at the top level of the scene
World == "|"

Origin == [t |-> <<0, 0, 0>>, r |-> <<0, 0, 0>>]

\* cmds.objExists(n) in a scene with the groups gr, locators gd, joints jn
objExists(gr, gd, jn, n) ==
    n \in gr \/ n \in DOMAIN gd \/ n \in DOMAIN jn

\* ensure_group(name): the groups afterwards
ensure_group(gr, name) == IF name \notin gr THEN gr \cup {name} ELSE gr

\* cmds.xform(n, q=True, ws=True, m=True), as translation and rotation: a
\* locator has its own, a joint sits at its position with no rotation, the
\* two groups are never moved
WorldMatrix(gd, jn, n) ==
    IF n \in DOMAIN gd THEN gd[n]
    ELSE IF n \in DOMAIN jn THEN [t |-> jn[n].pos, r |-> <<0, 0, 0>>]
    ELSE Origin

\* the chain of parents of joint j reaches the node top
RECURSIVE IsUnder(_, _, _)
IsUnder(jn, j, top) ==
    /\ j \in DOMAIN jn
    /\ \/ jn[j].parent = top
       \/ IsUnder(jn, jn[j].parent, top)

\* safe_delete(node) for the two groups: the node goes with all below it
safe_delete_guides(gr, gd) ==
    IF guides_grp \in gr THEN [groups |-> gr \ {guides_grp}, guides |-> << >>]
    ELSE [groups |-> gr, guides |-> gd]

safe_delete_joints(gr, jn) ==
    IF joints_grp \in gr
    THEN LET keep == {j \in DOMAIN jn : ~IsUnder(jn, j, joints_grp)}
         IN  [groups |-> gr \ {joints_grp}, joints |-> [j \in keep |-> jn[j]]]
    ELSE [groups |-> gr, joints |-> jn]

-----------------------------------------------------------------------------
(* AutoRigWizard: the handlers *)

CurrentStep == steps[step_index + 1]

\* refresh_step_label: the two navigation buttons (the label text is display only)
refresh_step_label ==
    /\ back_enabled' = (step_index' > 0)
    /\ next_enabled' = (step_index' < Len(steps') - 1)

\* (the step list filtered from the spec held before the rebuild)
rebuild_spec_steps_from_old_spec ==
    LET v == rebuild_spec_value(spine_spin, neck_spin, finger_spin, finger_seg_spin)
    IN  /\ spine_count' = spine_spin
        /\ neck_count' = neck_spin
        /\ finger_count' = finger_spin
        /\ finger_segments' = finger_seg_spin
        /\ spec' = v.spec
        /\ steps' = SelectSeq(spec, LAMBDA s : s.side \in {"C", "L"})
        /\ step_index' = 0
        /\ refresh_step_label
        /\ warnings' = << >>
        /\ UNCHANGED << spine_spin, neck_spin, finger_spin, finger_seg_spin,
                        groups, guides, joints, selection >>

rebuild_spec ==
    LET v == rebuild_spec_value(spine_spin, neck_spin, finger_spin, finger_seg_spin)
    IN  /\ spine_count' = spine_spin
        /\ neck_count' = neck_spin
        /\ finger_count' = finger_spin
        /\ finger_segments' = finger_seg_spin
        /\ spec' = v.spec
        /\ steps' = v.steps
        /\ step_index' = 0
        /\ refresh_step_label
        /\ warnings' = << >>
        /\ UNCHANGED << spine_spin, neck_spin, finger_spin, finger_seg_spin,
                        groups, guides, joints, selection >>

Max(a, b) == IF a >= b THEN a ELSE b
Min(a, b) == IF a <= b THEN a ELSE b

NavFrame ==
    /\ warnings' = << >>
    /\ UNCHANGED << spine_spin, neck_spin, finger_spin, finger_seg_spin,
                    spine_count, neck_count, finger_count, finger_segments,
                    spec, steps, groups, guides, joints, selection >>

prev_step ==
    /\ NavFrame
    /\ step_index' = Max(0, step_index - 1)
    /\ refresh_step_label

\* (the index moves on without the clamp at the last step)
next_step_no_clamp ==
    /\ NavFrame
    /\ step_index' = step_index + 1
    /\ refresh_step_label

next_step ==
    /\ NavFrame
    /\ step_index' = Min(Len(steps) - 1, step_index + 1)
    /\ refresh_step_label

\* the handlers below leave the wizard's own fields and widgets alone
SceneFrame ==
    /\ UNCHANGED << spine_spin, neck_spin, finger_spin, finger_seg_spin,
                    spine_count, neck_count, finger_count, finger_segments,
                    spec, steps, step_index >>
    /\ refresh_step_label

NoRefreshFrame ==
    UNCHANGED << spine_spin, neck_spin, finger_spin, finger_seg_spin,
                 spine_count, neck_count, finger_count, finger_segments,
                 spec, steps, step_index, back_enabled, next_enabled >>

\* create_or_select_current_guide, lines 298-310: groups, locators, selection after
CreateOrSelect(gr, gd, jn) ==
    LET gr1   == ensure_group(gr, guides_grp)
        guide == GuideName(CurrentStep.name)
        gd1   == IF ~objExists(gr1, gd, jn, guide) THEN (guide :> Origin) @@ gd
                 ELSE gd
    IN  [groups |-> gr1, guides |-> gd1, selection |-> << guide >>]

create_or_select_current_guide ==
    \E c \in {CreateOrSelect(groups, guides, joints)} :
        /\ groups' = c.groups
        /\ guides' = c.guides
        /\ selection' = c.selection
        /\ warnings' = << >>
        /\ UNCHANGED joints
        /\ SceneFrame

snap_current_guide ==
    \E guide \in {GuideName(CurrentStep.name)} :
    \E c \in {IF ~objExists(groups, guides, joints, guide)
              THEN CreateOrSelect(groups, guides, joints)
              ELSE [groups |-> groups, guides |-> guides, selection |-> selection]} :
    LET \* snap_to_selection(guide)
        sel == c.selection
        ok  == sel # << >>
    IN  /\ groups' = c.groups
        /\ guides' = IF ok
                     THEN [c.guides EXCEPT ![guide] = WorldMatrix(c.guides, joints, sel[1])]
                     ELSE c.guides
        /\ selection' = c.selection
        /\ warnings' = IF ok THEN << >>
                       ELSE << "Nothing selected to snap to. Select a vertex/transform and try again." >>
        /\ UNCHANGED joints
        /\ SceneFrame

\* mirror_left_to_right_guides, lines 328-344: the locators after the loop
\* over the L-side entries left[i..], in a scene with groups gr and joints jn
RECURSIVE MirrorLoop(_, _, _, _, _)
MirrorLoop(gr, gd, jn, left, i) ==
    IF i > Len(left) THEN gd
    ELSE LET jL == left[i].name
             gL == GuideName(jL)
         IN  IF ~objExists(gr, gd, jn, gL)
             THEN MirrorLoop(gr, gd, jn, left, i + 1)
             ELSE LET jR  == swap_LR(jL)
                      gR  == GuideName(jR)
                      gd1 == IF ~objExists(gr, gd, jn, gR)
                             THEN (gR :> Origin) @@ gd
                             ELSE gd
                  IN  MirrorLoop(gr, mirror_x_world(gd1, gL, gR), jn, left, i + 1)

mirror_left_to_right_guides ==
    LET gr1  == ensure_group(groups, guides_grp)
        left == SelectSeq(spec, LAMBDA s : s.side = "L")
    IN  /\ groups' = gr1
        /\ guides' = MirrorLoop(gr1, guides, joints, left, 1)
        /\ selection' = << >>
        /\ warnings' = << >>
        /\ UNCHANGED joints
        /\ NoRefreshFrame

\* (a joint is built for every entry, placed guide or not)
RECURSIVE BuildLoop_ignore_missing_guide(_, _, _, _, _)
BuildLoop_ignore_missing_guide(gr, gd, sp, acc, i) ==
    IF i > Len(sp) THEN acc
    ELSE LET s == sp[i]
             j == s.name
             g == GuideName(j)
         IN  IF objExists(gr, gd, acc.joints, j)
             THEN BuildLoop_ignore_missing_guide(gr, gd, sp,
                      [acc EXCEPT !.warnings =
                           Append(@, "Joint already exists, skipping: " \o j)],
                      i + 1)
             ELSE LET pos == IF g \in DOMAIN gd THEN gd[g].t ELSE <<0, 0, 0>>
                      parent == s.parent
                      par == IF parent # None /\ objExists(gr, gd, acc.joints, parent)
                             THEN parent ELSE World
                  IN  BuildLoop_ignore_missing_guide(gr, gd, sp,
                          [acc EXCEPT
                              !.joints = (j :> [parent |-> par, pos |-> pos]) @@ @,
                              !.created = Append(@, j)],
                          i + 1)

\* build_fk_joints, lines 356-380: joints, created list and warnings after
\* the loop over the entries sp[i..], in a scene with groups gr, locators gd
RECURSIVE BuildLoop(_, _, _, _, _)
BuildLoop(gr, gd, sp, acc, i) ==
    IF i > Len(sp) THEN acc
    ELSE LET s == sp[i]
             j == s.name
             g == GuideName(j)
         IN  IF ~objExists(gr, gd, acc.joints, g)
             THEN BuildLoop(gr, gd, sp,
                      [acc EXCEPT !.warnings =
                           IF s.required
                           THEN Append(@, "Missing guide for required joint: " \o j)
                           ELSE @],
                      i + 1)
             ELSE IF objExists(gr, gd, acc.joints, j)
             THEN BuildLoop(gr, gd, sp,
                      [acc EXCEPT !.warnings =
                           Append(@, "Joint already exists, skipping: " \o j)],
                      i + 1)
             ELSE LET pos == gd[g].t
                      parent == s.parent
                      par == IF parent # None /\ objExists(gr, gd, acc.joints, parent)
                             THEN parent ELSE World
                  IN  BuildLoop(gr, gd, sp,
                          [acc EXCEPT
                              !.joints = (j :> [parent |-> par, pos |-> pos]) @@ @,
                              !.created = Append(@, j)],
                          i + 1)

\* lines 384-386: the created joints that have no parent go under joints_grp
GroupRoots(jn, created) ==
    [j \in DOMAIN jn |->
        IF (\E k \in 1..Len(created) : created[k] = j) /\ jn[j].parent = World
        THEN [jn[j] EXCEPT !.parent = joints_grp]
        ELSE jn[j]]

\* the loop of build_fk_joints run on the current state
BuildResult ==
    BuildLoop(ensure_group(groups, joints_grp), guides, spec,
              [joints |-> joints, created |-> << >>, warnings |-> << >>], 1)

build_fk_joints ==
    \E b \in {BuildResult} :
        /\ groups' = ensure_group(groups, joints_grp)
        /\ joints' = GroupRoots(b.joints, b.created)
        /\ warnings' = b.warnings
        /\ selection' = b.created
        /\ UNCHANGED guides
        /\ NoRefreshFrame

clear_all ==
    LET g == safe_delete_guides(groups, guides)
        j == safe_delete_joints(g.groups, joints)
        left == j.groups \cup DOMAIN g.guides \cup DOMAIN j.joints
    IN  /\ groups' = j.groups
        /\ guides' = g.guides
        /\ joints' = j.joints
        /\ selection' = SelectSeq(selection, LAMBDA n : n \in left)
        /\ warnings' = << >>
        /\ SceneFrame

-----------------------------------------------------------------------------
(* The user at the dialog and in the viewport (Spec) *)

MaxEvents == 4

\* one user event; the handler op runs to its end before the next event
UserEvent(op) ==
    /\ events < MaxEvents
    /\ events' = events + 1
    /\ lastOp' = op
    /\ UNCHANGED << callVars, chainVars, mcVars >>

ClickRebuild == UserEvent("rebuild_spec") /\ rebuild_spec
ClickBack    == back_enabled /\ UserEvent("prev_step") /\ prev_step
ClickNext    == next_enabled /\ UserEvent("next_step") /\ next_step
ClickCreateGuide ==
    UserEvent("create_or_select_current_guide") /\ create_or_select_current_guide
ClickSnap   == UserEvent("snap_current_guide") /\ snap_current_guide
ClickMirror == UserEvent("mirror_left_to_right_guides") /\ mirror_left_to_right_guides
ClickBuild  == UserEvent("build_fk_joints") /\ build_fk_joints
ClickClear  == UserEvent("clear_all") /\ clear_all

\* The spin boxes: the arrows change the displayed value by one inside the
\* range; no handler is connected to a value change.
SpinFrame ==
    UNCHANGED << back_enabled, next_enabled,
                 spine_count, neck_count, finger_count, finger_segments,
                 spec, steps, step_index, sceneVars >>

StepSpineSpin ==
    \E d \in {-1, 1} :
        /\ spine_spin + d \in SpineRange
        /\ spine_spin' = spine_spin + d
        /\ UNCHANGED << neck_spin, finger_spin, finger_seg_spin >>
        /\ UserEvent("spine_spin") /\ SpinFrame

StepNeckSpin ==
    \E d \in {-1, 1} :
        /\ neck_spin + d \in NeckRange
        /\ neck_spin' = neck_spin + d
        /\ UNCHANGED << spine_spin, finger_spin, finger_seg_spin >>
        /\ UserEvent("neck_spin") /\ SpinFrame

StepFingerSpin ==
    \E d \in {-1, 1} :
        /\ finger_spin + d \in FingerRange
        /\ finger_spin' = finger_spin + d
        /\ UNCHANGED << spine_spin, neck_spin, finger_seg_spin >>
        /\ UserEvent("finger_spin") /\ SpinFrame

StepFingerSegSpin ==
    \E d \in {-1, 1} :
        /\ finger_seg_spin + d \in SegRange
        /\ finger_seg_spin' = finger_seg_spin + d
        /\ UNCHANGED << spine_spin, neck_spin, finger_spin >>
        /\ UserEvent("finger_seg_spin") /\ SpinFrame

\* "move it in viewport": the user moves the selected locator
UserXforms == { [t |-> <<1, 2, 3>>, r |-> <<10, 20, 30>>] }

UserMoveGuide ==
    \E xf \in UserXforms :
        /\ selection # << >>
        /\ selection[1] \in DOMAIN guides
        /\ guides' = [guides EXCEPT ![selection[1]] = xf]
        /\ UNCHANGED << wizardVars, groups, joints, selection, warnings >>
        /\ UserEvent("move")

Next ==
    \/ ClickRebuild
    \/ ClickBack
    \/ ClickNext
    \/ ClickCreateGuide
    \/ ClickSnap
    \/ ClickMirror
    \/ ClickBuild
    \/ ClickClear
    \/ StepSpineSpin
    \/ StepNeckSpin
    \/ StepFingerSpin
    \/ StepFingerSegSpin
    \/ UserMoveGuide

Spec == InitModel /\ [][Next]_vars

-----------------------------------------------------------------------------
(* A guide session: walk the steps, place guides, mirror, build (SpecGuides) *)

MaxGuideEvents == 13

SessionEvent(op) ==
    /\ events < MaxGuideEvents
    /\ events' = events + 1
    /\ lastOp' = op
    /\ UNCHANGED << callVars, chainVars, mcVars >>

SessionNext   == next_enabled /\ SessionEvent("next_step") /\ next_step
SessionCreateGuide ==
    SessionEvent("create_or_select_current_guide") /\ create_or_select_current_guide
SessionMirror ==
    SessionEvent("mirror_left_to_right_guides") /\ mirror_left_to_right_guides
SessionBuild  == SessionEvent("build_fk_joints") /\ build_fk_joints

NextGuides ==
    \/ SessionNext
    \/ SessionCreateGuide
    \/ SessionMirror
    \/ SessionBuild

SpecGuides == InitModel /\ [][NextGuides]_vars

-----------------------------------------------------------------------------
(* Properties of the wizard *)

\* the step just taken ran build_fk_joints
BuildStep == lastOp' = "build_fk_joints" /\ events' = events + 1

MissingGuideWarning(j) == "Missing guide for required joint: " \o j
AlreadyExistsWarning(j) == "Joint already exists, skipping: " \o j
Warned(ws, w) == \E k \in 1..Len(ws) : ws[k] = w

\* where build_fk_joints leaves a new joint of entry s, given the joints after it
ExpectedParent(jn, s) ==
    IF s.parent # None /\ s.parent \in DOMAIN jn THEN s.parent ELSE joints_grp

\* C7 as stated: build_fk_joints creates one joint per spec entry that has a
\* placed guide, attached to its named parent if that parent exists as a
\* created node and under RigJoints_GRP otherwise; an entry without a guide
\* gets no joint, and is warned about exactly when it is required.
C7_AsStated ==
    [][BuildStep =>
        \A i \in 1..Len(spec) :
            LET s == spec[i]
                j == s.name
            IN  IF GuideName(j) \in DOMAIN guides
                THEN /\ j \notin DOMAIN joints
                     /\ j \in DOMAIN joints'
                     /\ joints'[j].parent = ExpectedParent(joints', s)
                ELSE /\ (j \in DOMAIN joints') = (j \in DOMAIN joints)
                     /\ Warned(warnings', MissingGuideWarning(j)) = s.required
    ]_vars

\* C7 as amended: build_fk_joints creates one joint per spec entry that has a
\* placed guide and no node of the joint's name yet, at the guide's world
\* position, attached to its named parent if that parent exists as a created
\* node and under RigJoints_GRP otherwise; an entry whose joint exists already
\* is skipped with a warning and its joint left as it is; an entry without a
\* guide gets no joint, and is warned about exactly when it is required; no
\* other joint appears.
C7_BuildFkJoints ==
    [][BuildStep =>
        /\ \A i \in 1..Len(spec) :
            LET s == spec[i]
                j == s.name
                g == GuideName(j)
            IN  IF g \in DOMAIN guides
                THEN IF j \notin DOMAIN joints
                     THEN /\ j \in DOMAIN joints'
                          /\ joints'[j].parent = ExpectedParent(joints', s)
                          /\ joints'[j].pos = guides[g].t
                          /\ ~Warned(warnings', AlreadyExistsWarning(j))
                     ELSE /\ j \in DOMAIN joints'
                          /\ joints'[j] = joints[j]
                          /\ Warned(warnings', AlreadyExistsWarning(j))
                ELSE /\ (j \in DOMAIN joints') = (j \in DOMAIN joints)
                     /\ Warned(warnings', MissingGuideWarning(j)) = s.required
        /\ \A j \in DOMAIN joints' \ DOMAIN joints :
               \E i \in 1..Len(spec) :
                   spec[i].name = j /\ GuideName(j) \in DOMAIN guides
    ]_vars

C7_Witness ==
    /\ lastOp = "build_fk_joints"
    /\ DOMAIN guides = {"COG_FK_Guide", "Pelvis_FK_Guide"}
    /\ DOMAIN joints = {"COG_FK_Jnt", "Pelvis_FK_Jnt"}
    /\ joints["COG_FK_Jnt"].parent = joints_grp
    /\ joints["Pelvis_FK_Jnt"].parent = "COG_FK_Jnt"
    /\ Warned(warnings, MissingGuideWarning("Spine_01_FK_Jnt"))
    /\ ~Warned(warnings, MissingGuideWarning("L_Foot_03_FK_Jnt"))
    /\ ~Warned(warnings, MissingGuideWarning("Pelvis_FK_Jnt"))

\* C8: after Mirror L -> R Guides and Build FK Joints from Guides there is
\* one joint per guide locator; in particular every R_ guide made from an L_
\* guide has the joint of the prefix-swapped name, parented by the
\* prefix-swapped parent name.
C8_JointPerGuide ==
    lastOp = "build_fk_joints" =>
        /\ \A g \in DOMAIN guides :
               \E j \in DOMAIN joints : GuideName(j) = g
        /\ \A i \in 1..Len(spec) :
               LET s  == spec[i]
                   jR == swap_LR(s.name)
               IN  s.side = "L" /\ GuideName(jR) \in DOMAIN guides =>
                       /\ jR \in DOMAIN joints
                       /\ joints[jR].parent \in {swap_LR(s.parent), joints_grp}

\* C10 as stated: the spec and the step list are always the ones generated
\* from the counts the spin boxes display, and the step list is the C- and
\* L-side entries of the spec.
C10_SpecFollowsSpinBoxes ==
    LET v == rebuild_spec_value(spine_spin, neck_spin, finger_spin, finger_seg_spin)
    IN  /\ spec = v.spec
        /\ steps = v.steps
        /\ steps = SelectSeq(spec, LAMBDA s : s.side \in {"C", "L"})

\* C10 as amended: the spec is recomputed in full when Rebuild Steps is
\* clicked (and at construction), not when a spin box changes: the spec and
\* the step list are always the ones generated from the counts read at the
\* last rebuild, which are the displayed counts right after a rebuild, and
\* the step list is the C- and L-side entries of the spec.
C10_SpecFollowsLastRebuild ==
    LET v == rebuild_spec_value(spine_count, neck_count, finger_count, finger_segments)
    IN  /\ spec = v.spec
        /\ steps = v.steps
        /\ steps = SelectSeq(spec, LAMBDA s : s.side \in {"C", "L"})
        /\ lastOp = "rebuild_spec" =>
               << spine_count, neck_count, finger_count, finger_segments >> =
               << spine_spin, neck_spin, finger_spin, finger_seg_spin >>

C10_Witness ==
    /\ lastOp = "rebuild_spec"
    /\ spine_count = 4 /\ spine_spin = 4
    /\ finger_count = 4 /\ finger_spin = 4
    /\ Len(spec) = 35
    /\ Len(steps) = 35
    /\ step_index = 0

-----------------------------------------------------------------------------
(* broken_FK.py: the constraint-chaining script (SpecChain) *)

MaxSel == 4

\* controls of a rig that keeps the naming convention: each sits in its group
Controls == {"A_Ctrl", "B_Ctrl", "C_Ctrl", "D_Ctrl"}

\* cmds.listRelatives(ctrl, parent=True)[0]
ParentGroup(ctrl) == ctrl \o "_Grp"

\* cmds.ls(sl=True): an ordered selection without repeats
Selections ==
    UNION { {q \in [1..n -> Controls] : \A i, j \in 1..n : i # j => q[i] # q[j]} :
            n \in 0..Min(MaxSel, Cardinality(Controls)) }

InitChainSpec ==
    /\ InitWizard /\ InitScene /\ InitCalls /\ InitControls
    /\ sels \in Selections
    /\ index = 0
    /\ constraints = {} /\ attrs = {} /\ connections = {}
    /\ lastOp = "init" /\ events = 0

\* One pass of the loop body, lines 6-25.  A constraint is the node the
\* command returns; attrs holds the added attributes; a connection runs from
\* a control's attribute to a constraint's weight w0.
ChainIteration ==
    /\ index < Len(sels) - 1
    /\ LET parent_ctrl == sels[index + 1]
           child_ctrl  == sels[index + 2]
           child_ctrl_grp == ParentGroup(child_ctrl)
           p_constraint1 == [node |-> child_ctrl_grp \o "_parentConstraint1",
                             type |-> "parentConstraint", target |-> parent_ctrl,
                             driven |-> child_ctrl_grp, skip |-> "rotate"]
           p_constraint2 == [node |-> child_ctrl_grp \o "_parentConstraint2",
                             type |-> "parentConstraint", target |-> parent_ctrl,
                             driven |-> child_ctrl_grp, skip |-> "translate"]
           s_constraint  == [node |-> child_ctrl_grp \o "_scaleConstraint1",
                             type |-> "scaleConstraint", target |-> parent_ctrl,
                             driven |-> child_ctrl_grp, skip |-> "none"]
           follow_t == [ctrl |-> child_ctrl, ln |-> "Follow_Translate",
                        min |-> 0, max |-> 1, dv |-> 1]
           follow_r == [ctrl |-> child_ctrl, ln |-> "Follow_Rotate",
                        min |-> 0, max |-> 1, dv |-> 1]
       IN  /\ constraints' = constraints \cup {p_constraint1, p_constraint2, s_constraint}
           /\ attrs' = attrs \cup {follow_t, follow_r}
           /\ connections' = connections \cup
                  { [src |-> << child_ctrl, "Follow_Translate" >>,
                     dst |-> << p_constraint1.node, "w0" >>],
                    [src |-> << child_ctrl, "Follow_Rotate" >>,
                     dst |-> << p_constraint2.node, "w0" >>],
                    [src |-> << child_ctrl, "Follow_Rotate" >>,
                     dst |-> << p_constraint2.node, "w0" >>] }
    /\ index' = index + 1
    /\ lastOp' = "chain"
    /\ UNCHANGED << wizardVars, sceneVars, events, callVars, sels, mcVars >>

NextChain == ChainIteration

SpecChain == InitChainSpec /\ [][NextChain]_vars

\* the loop has run to its end
ChainDone == index >= Len(sels) - 1

\* the weight of constraint c is driven by a custom 0-to-1 attribute ln of ctrl
Gated(c, ctrl, ln) ==
    /\ \E a \in attrs : a.ctrl = ctrl /\ a.ln = ln /\ a.min = 0 /\ a.max = 1
    /\ [src |-> << ctrl, ln >>, dst |-> << c.node, "w0" >>] \in connections

\* C9: when the script ends, every pair of consecutive controls of the
\* selection has, on the child's parent group, a translate-only parent
\* constraint gated by the child's Follow_Translate, a rotate-only parent
\* constraint gated by the child's Follow_Rotate, and a scale constraint
\* whose weight is connected to a custom attribute of the child as well.
C9_AllThreeGated ==
    ChainDone =>
        \A i \in 1..(Len(sels) - 1) :
            LET parent_ctrl == sels[i]
                child_ctrl  == sels[i + 1]
                On(c) == c.target = parent_ctrl /\ c.driven = ParentGroup(child_ctrl)
            IN  /\ \E c \in constraints :
                       /\ On(c) /\ c.type = "parentConstraint" /\ c.skip = "rotate"
                       /\ Gated(c, child_ctrl, "Follow_Translate")
                /\ \E c \in constraints :
                       /\ On(c) /\ c.type = "parentConstraint" /\ c.skip = "translate"
                       /\ Gated(c, child_ctrl, "Follow_Rotate")
                /\ \E c \in constraints :
                       /\ On(c) /\ c.type = "scaleConstraint"
                       /\ \E a \in attrs : Gated(c, child_ctrl, a.ln)

-----------------------------------------------------------------------------
(* The handlers called in any order, whatever the buttons' states (SpecNav) *)

MaxNavSceneEvents == 1

\* counts entered in the four spin boxes: the least of each range, and the
\* defaults
NavCounts == { <<1, 1, 0, 1>>, <<3, 3, 5, 3>> }

\* the dialog as constructed, with counts entered in the spin boxes (no
\* handler runs on entry)
InitNavSpec ==
    /\ \E c \in NavCounts :
          /\ spine_spin = c[1] /\ neck_spin = c[2]
          /\ finger_spin = c[3] /\ finger_seg_spin = c[4]
    /\ spine_count = 3 /\ neck_count = 3 /\ finger_count = 5 /\ finger_segments = 3
    /\ spec  = rebuild_spec_value(3, 3, 5, 3).spec
    /\ steps = rebuild_spec_value(3, 3, 5, 3).steps
    /\ step_index = 0
    /\ back_enabled = FALSE
    /\ next_enabled = TRUE
    /\ InitScene /\ InitCalls /\ InitChain /\ InitControls
    /\ lastOp = "init" /\ events = 0

\* a handler that leaves the scene alone
NavCall(op) ==
    /\ lastOp' = op
    /\ UNCHANGED << events, callVars, chainVars, mcVars >>

\* a handler that works on the scene
SceneCall(op) ==
    /\ events < MaxNavSceneEvents
    /\ events' = events + 1
    /\ lastOp' = op
    /\ UNCHANGED << callVars, chainVars, mcVars >>

NavRebuild == NavCall("rebuild_spec") /\ rebuild_spec
NavBack    == NavCall("prev_step") /\ prev_step
NavNext    == NavCall("next_step") /\ next_step
NavCreateGuide ==
    SceneCall("create_or_select_current_guide") /\ create_or_select_current_guide
NavSnap   == SceneCall("snap_current_guide") /\ snap_current_guide
NavMirror == SceneCall("mirror_left_to_right_guides") /\ mirror_left_to_right_guides
NavBuild  == SceneCall("build_fk_joints") /\ build_fk_joints
NavClear  == SceneCall("clear_all") /\ clear_all

NextNav ==
    \/ NavRebuild
    \/ NavBack
    \/ NavNext
    \/ NavCreateGuide
    \/ NavSnap
    \/ NavMirror
    \/ NavBuild
    \/ NavClear

SpecNav == InitNavSpec /\ [][NextNav]_vars

\* C12: the step list is never empty, for the counts in use and for every
\* count combination the spin boxes allow, and step_index stays inside it;
\* Back at index 0 and Next at the last index leave step_index as it is;
\* Rebuild Steps puts step_index at 0.
C12_StepIndexInRange ==
    /\ [](/\ Len(steps) >= 1
          /\ step_index \in 0..(Len(steps) - 1)
          /\ lastOp = "init" =>
                 \A a \in SpineRange, b \in NeckRange, c \in FingerRange, d \in SegRange :
                     Len(rebuild_spec_value(a, b, c, d).steps) >= 1)
    /\ [][/\ (lastOp' = "prev_step" /\ step_index = 0) => step_index' = 0
          /\ (lastOp' = "next_step" /\ step_index = Len(steps) - 1) =>
                 step_index' = step_index
          /\ lastOp' = "rebuild_spec" => step_index' = 0]_vars

\* Next has just run and the index is the last of a step list rebuilt with
\* the least counts
C12_Witness ==
    /\ lastOp = "next_step"
    /\ spine_count = 1 /\ finger_count = 0
    /\ step_index = Len(steps) - 1
    /\ back_enabled /\ ~next_enabled

-----------------------------------------------------------------------------
(* MirrorControls.py: the Maya DAG as full paths, and the commands used *)

\* s.endswith(suffix)
EndsWith(s, suffix) ==
    /\ Len(s) >= Len(suffix)
    /\ SubSeq(s, Len(s) - Len(suffix) + 1, Len(s)) = suffix

\* s.replace(old, new, 1): the first occurrence only
ReplaceFirst(s, old, new) ==
    LET i == Find(s, old)
    IN  IF i = 0 \/ Len(old) = 0 THEN s
        ELSE SubSeq(s, 1, i - 1) \o new \o SubSeq(s, i + Len(old), Len(s))

\* index of the last "|" of a path, 0 if none
LastBar(p) ==
    LET at == {i \in 1..Len(p) : SubSeq(p, i, i) = "|"}
    IN  IF at = {} THEN 0 ELSE CHOOSE i \in at : \A k \in at : k <= i

\* p.split("|")[-1]
Leaf(p) == SubSeq(p, LastBar(p) + 1, Len(p))

\* the path of the parent of the node at full path p; "" is the world
ParentPath(p) == SubSeq(p, 1, LastBar(p) - 1)

\* the nodes a name or path given to a command matches
Resolve(d, n) ==
    IF StartsWith(n, "|") THEN {p \in DOMAIN d : p = n}
    ELSE {p \in DOMAIN d : Leaf(p) = n}

\* cmds.objExists(n)
nodeExists(d, n) == Resolve(d, n) # {}

\* the node at p and everything below it
Subtree(d, p) == {q \in DOMAIN d : q = p \/ StartsWith(q, p \o "|")}

Children(d, p) == {q \in DOMAIN d : ParentPath(q) = p}

\* base with the first number appended that no child of pp other than the
\* node itself (self) carries
NumberedLeaf(d, pp, base, self) ==
    LET taken == {Leaf(q) : q \in Children(d, pp) \ {self}}
        free  == {k \in 1..(Cardinality(taken) + 1) : (base \o ToString(k)) \notin taken}
    IN  base \o ToString(CHOOSE k \in free : \A j \in free : k <= j)

\* the name Maya gives a node that asks for leaf name base under parent pp:
\* base if no sibling has it, else base with a number appended
UniqueLeaf(d, pp, base, self) ==
    IF base \notin {Leaf(q) : q \in Children(d, pp) \ {self}} THEN base
    ELSE NumberedLeaf(d, pp, base, self)

\* world-space position and X scale of the node at p
RECURSIVE WorldOf(_, _)
WorldOf(d, p) ==
    IF p = "" THEN [pos |-> <<0, 0, 0>>, sx |-> 1]
    ELSE LET up == WorldOf(d, ParentPath(p))
             n  == d[p]
         IN  [pos |-> << up.pos[1] + up.sx * n.t[1],
                         up.pos[2] + n.t[2],
                         up.pos[3] + n.t[3] >>,
              sx  |-> up.sx * n.sx]

\* the local values that put a node at world w under the parent at pp
LocalFor(d, pp, w) ==
    LET up == WorldOf(d, pp)
    IN  [t  |-> << up.sx * (w.pos[1] - up.pos[1]),
                   w.pos[2] - up.pos[2],
                   w.pos[3] - up.pos[3] >>,
         sx |-> up.sx * w.sx]

\* the DAG with the subtree at p re-rooted at path q
Rekey(d, p, q) ==
    LET moved == Subtree(d, p)
        kept  == DOMAIN d \ moved
        new   == {q \o DropPrefix(r, Len(p)) : r \in moved}
    IN  [r \in kept \cup new |->
            IF r \in new THEN d[p \o DropPrefix(r, Len(q))] ELSE d[r]]

\* cmds.rename(p, leaf): the DAG after it and the name returned
renameNode(d, p, leaf) ==
    LET pp   == ParentPath(p)
        name == UniqueLeaf(d, pp, leaf, p)
    IN  [dag |-> Rekey(d, p, pp \o "|" \o name), name |-> name]

\* cmds.parent(p, <node at pp>) / cmds.parent(p, world=True): the world
\* transform is kept; the DAG after it and the name returned
parentNode(d, p, pp) ==
    LET name == UniqueLeaf(d, pp, Leaf(p), p)
        q    == pp \o "|" \o name
        loc  == LocalFor(d, pp, WorldOf(d, p))
        d1   == Rekey(d, p, q)
    IN  [dag  |-> [d1 EXCEPT ![q] = [@ EXCEPT !.t = loc.t, !.sx = loc.sx]],
         name |-> name]

\* cmds.duplicate(p)[0]: a copy of the subtree beside the original
duplicateNode(d, p) ==
    LET pp   == ParentPath(p)
        name == NumberedLeaf(d, pp, Leaf(p), "")
        q    == pp \o "|" \o name
        new  == {q \o DropPrefix(r, Len(p)) : r \in Subtree(d, p)}
    IN  [dag  |-> [r \in DOMAIN d \cup new |->
                      IF r \in new THEN d[p \o DropPrefix(r, Len(q))] ELSE d[r]],
         name |-> name]

\* cmds.delete(p): the node and everything below it
deleteNode(d, p) == [r \in DOMAIN d \ Subtree(d, p) |-> d[r]]

\* a command resolves the name n to exactly one node
Unique(d, n) == Cardinality(Resolve(d, n)) = 1
Node(d, n) == CHOOSE p \in Resolve(d, n) : TRUE

Transform == [t |-> <<0, 0, 0>>, sx |-> 1, kind |-> "transform"]

\* the state of the script between two commands
Run(d, un, w, e) == [dag |-> d, unparented |-> un, warnings |-> w, error |-> e]

\* the value of a one-element set: The({f(x) : x \in {e}}) is f at the value of e
The(S) == CHOOSE x \in S : TRUE

\* line 99: cmds.parent(dupe_ctrl, "mirror_group")
IntoMirrorGroup(d, un, w, dupe_ctrl) ==
    IF ~(Unique(d, dupe_ctrl) /\ Unique(d, "mirror_group"))
    THEN Run(d, un, w, "parent: name not unique")
    ELSE Run(parentNode(d, Node(d, dupe_ctrl), Node(d, "mirror_group")).dag, un, w, "")

\* cmds.matchTransform(dupe_grp, jnt_name, pos=True, rot=True)
matchTransform(d, dupe_grp, jnt_name) ==
    LET gp == Node(d, dupe_grp)
        at == LocalFor(d, ParentPath(gp),
                       [pos |-> WorldOf(d, Node(d, jnt_name)).pos,
                        sx  |-> WorldOf(d, gp).sx])
    IN  [d EXCEPT ![gp].t = at.t]

\* lines 87-99, after line 84 returned r2 (the scene and the control's name)
AfterUnparent(r2, un, w, dupe_grp) ==
    LET dupe_ctrl == r2.name
        grp_leaf  == Leaf(dupe_grp)
        jnt_name  == Replace(grp_leaf, "_Ctrl_Grp", "_Jnt")
        un1 == Append(un, dupe_ctrl)
    IN  IF nodeExists(r2.dag, jnt_name)
        THEN IF ~(Unique(r2.dag, dupe_grp) /\ Unique(r2.dag, jnt_name))
             THEN Run(r2.dag, un1, w, "matchTransform: name not unique")
             ELSE The({ IntoMirrorGroup(d3, un1, w, dupe_ctrl) :
                        d3 \in {matchTransform(r2.dag, dupe_grp, jnt_name)} })
        ELSE IntoMirrorGroup(r2.dag, un1,
                             Append(w, "No matching joint for " \o grp_leaf), dupe_ctrl)

\* lines 84-99, after line 81 returned r1
AfterRename(r1, un, w, dupe_grp) ==
    IF ~Unique(r1.dag, r1.name) THEN Run(r1.dag, un, w, "parent: name not unique")
    ELSE The({ AfterUnparent(r2, un, w, dupe_grp) :
               r2 \in {parentNode(r1.dag, Node(r1.dag, r1.name), "")} })

\* lines 77-99, with the duplicated group renamed to dupe_grp and the
\* control found below it at full path k
MirrorFound(d, un, w, dupe_grp, k) ==
    IF StartsWith(Leaf(k), "L_")
    THEN The({ AfterRename(r1, un, w, dupe_grp) :
               r1 \in {renameNode(d, k, ReplaceFirst(Leaf(k), "L_", "R_"))} })
    ELSE \* line 99 alone, on the full path
         IntoMirrorGroup(d, un, w, k)

\* lines 69-99, after line 66 returned r2 (the scene and dupe_grp)
AfterGroupRenames(r2, un, w) ==
    IF ~Unique(r2.dag, r2.name) THEN Run(r2.dag, un, w, "listRelatives: name not unique")
    ELSE LET kids == {k \in Children(r2.dag, Node(r2.dag, r2.name)) :
                          EndsWith(Leaf(k), "_Ctrl")}
         IN  IF kids = {} THEN Run(r2.dag, un, w, "")
             ELSE The({ MirrorFound(r2.dag, un, w, r2.name, k) : k \in {The(kids)} })

\* lines 65-99, after line 64 returned r1
AfterFirstRename(r1, un, w) ==
    IF ~Unique(r1.dag, r1.name) THEN Run(r1.dag, un, w, "rename: name not unique")
    ELSE The({ AfterGroupRenames(r2, un, w) :
               r2 \in {renameNode(r1.dag, Node(r1.dag, r1.name),
                                  ReplaceFirst(r1.name, "Grp1", "Grp"))} })

\* lines 63-99, after line 60 returned dup
AfterDuplicate(dup, un, w) ==
    IF ~Unique(dup.dag, dup.name) THEN Run(dup.dag, un, w, "rename: name not unique")
    ELSE The({ AfterFirstRename(r1, un, w) :
               r1 \in {renameNode(dup.dag, Node(dup.dag, dup.name),
                                  ReplaceFirst(dup.name, "L_", "R_"))} })

\* lines 54-99: one pass of the loop, for the selected control ctrl
MirrorOne(d, un, w, ctrl) ==
    IF ~Unique(d, ctrl) THEN Run(d, un, w, "listRelatives: name not unique")
    ELSE LET parent == ParentPath(Node(d, ctrl))
         IN  IF parent = "" THEN Run(d, un, w, "")
             ELSE The({ AfterDuplicate(dup, un, w) : dup \in {duplicateNode(d, parent)} })

\* reparent_controls_to_groups(controls), lines 24-34, from controls[i] on
RECURSIVE reparent_controls_to_groups(_, _, _, _)
reparent_controls_to_groups(d, w, controls, i) ==
    IF i > Len(controls) THEN Run(d, controls, w, "")
    ELSE LET ctrl      == controls[i]
             ctrl_leaf == Leaf(ctrl)
             grp_name  == Replace(ctrl_leaf, "_Ctrl", "_Ctrl_Grp")
         IN  IF ~EndsWith(ctrl_leaf, "_Ctrl")
             THEN reparent_controls_to_groups(d, w, controls, i + 1)
             ELSE IF nodeExists(d, grp_name)
             THEN IF ~(Unique(d, ctrl) /\ Unique(d, grp_name))
                  THEN Run(d, controls, w, "parent: name not unique")
                  ELSE reparent_controls_to_groups(
                           parentNode(d, Node(d, ctrl), Node(d, grp_name)).dag,
                           w, controls, i + 1)
             ELSE reparent_controls_to_groups(
                      d, Append(w, "Missing control group: " \o grp_name),
                      controls, i + 1)

-----------------------------------------------------------------------------
(* MirrorControls() run on a small rig (SpecControls) *)

MaxPicked == 2

Joint(x, y, z) == [t |-> <<x, y, z>>, sx |-> 1, kind |-> "joint"]
At(x, y, z) == [Transform EXCEPT !.t = <<x, y, z>>]

\* a left arm that keeps the naming convention, a left leg whose control
\* sits in a group named otherwise, a hand control without a parent and a
\* centre control in its group; the right arm joint and a mirror_group left
\* over from an earlier run may or may not be there
Rig(withJoint, withMirrorGroup) ==
    ("|L_Arm_Ctrl_Grp" :> At(2, 1, 0)) @@
    ("|L_Arm_Ctrl_Grp|L_Arm_Ctrl" :> At(1, 0, 0)) @@
    ("|L_Leg_Offset" :> At(1, -2, 0)) @@
    ("|L_Leg_Offset|L_Leg_Ctrl" :> At(0, 0, 1)) @@
    ("|L_Hand_Ctrl" :> At(3, 1, 0)) @@
    ("|C_Hip_Ctrl_Grp" :> At(0, 1, 0)) @@
    ("|C_Hip_Ctrl_Grp|C_Hip_Ctrl" :> At(0, 0, 0)) @@
    (IF withJoint THEN ("|R_Arm_Jnt" :> Joint(-2, 1, 0)) ELSE << >>) @@
    (IF withMirrorGroup THEN ("|mirror_group" :> Transform) ELSE << >>)

RigControls == {"L_Arm_Ctrl", "L_Leg_Ctrl", "L_Hand_Ctrl", "C_Hip_Ctrl"}

\* cmds.ls(sl=True, type="transform"): an ordered selection without repeats
Picks ==
    UNION { {q \in [1..n -> RigControls] : \A i, j \in 1..n : i # j => q[i] # q[j]} :
            n \in 0..Min(MaxPicked, Cardinality(RigControls)) }

InitControlsSpec ==
    /\ InitWizard /\ InitScene /\ InitCalls /\ InitChain
    /\ lastOp = "init" /\ events = 0
    /\ \E j, m \in BOOLEAN : dag = Rig(j, m)
    /\ picked \in Picks
    /\ pc = "begin"
    /\ ctrls = << >> /\ mirror_grp = "" /\ unparented_ctrls = << >>
    /\ ctrl_i = 0 /\ mc_warnings = << >> /\ error = ""

ScriptFrame == UNCHANGED << wizardVars, sceneVars, lastOp, events, callVars,
                            chainVars, picked >>

\* lines 37-48
MC_Begin ==
    /\ pc = "begin"
    /\ ctrls' = picked
    /\ IF picked = << >>
       THEN /\ mc_warnings' = Append(mc_warnings, "please select at least one control")
            /\ pc' = "done"
            /\ UNCHANGED << dag, mirror_grp, unparented_ctrls, ctrl_i >>
       ELSE /\ mirror_grp' = "mirror_group"
            /\ dag' = IF ~nodeExists(dag, "mirror_group")
                      THEN ("|mirror_group" :> Transform) @@ dag
                      ELSE dag
            /\ unparented_ctrls' = << >>
            /\ ctrl_i' = 1
            /\ pc' = "loop"
            /\ UNCHANGED mc_warnings
    /\ UNCHANGED error
    /\ ScriptFrame

\* lines 53-99: one pass of the first loop
MC_Mirror ==
    /\ pc = "loop"
    /\ \E r \in {MirrorOne(dag, unparented_ctrls, mc_warnings, ctrls[ctrl_i])} :
          /\ dag' = r.dag
          /\ unparented_ctrls' = r.unparented
          /\ mc_warnings' = r.warnings
          /\ error' = r.error
          /\ pc' = IF r.error # "" THEN "done"
                   ELSE IF ctrl_i = Len(ctrls) THEN "scale" ELSE "loop"
    /\ ctrl_i' = ctrl_i + 1
    /\ UNCHANGED << ctrls, mirror_grp >>
    /\ ScriptFrame

\* line 102
MC_Scale ==
    /\ pc = "scale"
    /\ IF Unique(dag, mirror_grp)
       THEN /\ dag' = [dag EXCEPT ![Node(dag, mirror_grp)].sx = -1]
            /\ pc' = "reparent"
            /\ UNCHANGED error
       ELSE /\ error' = "scale: name not unique"
            /\ pc' = "done"
            /\ UNCHANGED dag
    /\ UNCHANGED << ctrls, mirror_grp, unparented_ctrls, ctrl_i, mc_warnings >>
    /\ ScriptFrame

\* line 105
MC_Reparent ==
    /\ pc = "reparent"
    /\ \E r \in {reparent_controls_to_groups(dag, mc_warnings, unparented_ctrls, 1)} :
          /\ dag' = r.dag
          /\ mc_warnings' = r.warnings
          /\ error' = r.error
          /\ pc' = IF r.error # "" THEN "done" ELSE "delete"
    /\ UNCHANGED << ctrls, mirror_grp, unparented_ctrls, ctrl_i >>
    /\ ScriptFrame

\* line 108
MC_Delete ==
    /\ pc = "delete"
    /\ IF Unique(dag, mirror_grp)
       THEN /\ dag' = deleteNode(dag, Node(dag, mirror_grp))
            /\ pc' = IF unparented_ctrls = << >> THEN "done" ELSE "zero"
            /\ UNCHANGED error
       ELSE /\ error' = "delete: name not unique"
            /\ pc' = "done"
            /\ UNCHANGED dag
    /\ ctrl_i' = 1
    /\ UNCHANGED << ctrls, mirror_grp, unparented_ctrls, mc_warnings >>
    /\ ScriptFrame

\* lines 111-116: one pass of the last loop; setAttr on a name that matches
\* no node raises and ends the script
MC_Zero ==
    /\ pc = "zero"
    /\ LET ctrl == unparented_ctrls[ctrl_i]
       IN  IF Unique(dag, ctrl)
           THEN /\ dag' = [dag EXCEPT ![Node(dag, ctrl)] =
                               [@ EXCEPT !.t = <<0, 0, 0>>, !.sx = 1]]
                /\ pc' = IF ctrl_i = Len(unparented_ctrls) THEN "done" ELSE "zero"
                /\ UNCHANGED error
           ELSE /\ error' = "setAttr: No object matches name: " \o ctrl \o ".translateX"
                /\ pc' = "done"
                /\ UNCHANGED dag
    /\ ctrl_i' = ctrl_i + 1
    /\ UNCHANGED << ctrls, mirror_grp, unparented_ctrls, mc_warnings >>
    /\ ScriptFrame

NextControls ==
    \/ MC_Begin
    \/ MC_Mirror
    \/ MC_Scale
    \/ MC_Reparent
    \/ MC_Delete
    \/ MC_Zero

SpecControls == InitControlsSpec /\ [][NextControls]_vars

\* the script has ended, by running to its last line or by an error
ScriptEnded == pc = "done" /\ ctrls # << >>

\* the leading left prefix swapped for the right prefix
LeftToRight(n) == IF StartsWith(n, "L_") THEN "R_" \o DropPrefix(n, 2) ELSE n

\* the selected controls that have a parent group
PickedInGroup ==
    {c \in {picked[i] : i \in 1..Len(picked)} :
        \E p \in Resolve(dag, c) : ParentPath(p) # ""}

ControlNodes == {p \in DOMAIN dag : EndsWith(Leaf(p), "_Ctrl")}

\* C11: once MirrorControls has ended, every selected control that has a
\* parent group has a duplicate named with R_ in place of the leading L_,
\* sitting under the duplicated and renamed control group with local
\* translate 0, 0, 0; mirror_group is gone and took no duplicated control
\* with it; and the run was not aborted by an error, a missing control group
\* or joint giving a warning only.
C11_MirrorControls ==
    ScriptEnded =>
        /\ error = ""
        /\ ~nodeExists(dag, "mirror_group")
        /\ Cardinality(ControlNodes) =
               Cardinality(RigControls) + Cardinality(PickedInGroup)
        /\ \A c \in PickedInGroup :
               \E p \in Resolve(dag, c) : \E q \in Resolve(dag, LeftToRight(c)) :
                   /\ q # p
                   /\ ParentPath(q) # "" /\ ParentPath(q) # ParentPath(p)
                   /\ StartsWith(Leaf(ParentPath(q)), LeftToRight(Leaf(ParentPath(p))))
                   /\ dag[q].t = <<0, 0, 0>>

=============================================================================
